---- MODULE Spec2Model ----
(***************************************************************************)
(* A model of sdgym/evaluators/evaluate.py: the feature encoder            *)
(* (make_features), the utility evaluators, the dispatcher                 *)
(* (evalute_dataset), the distance evaluator (compute_distance) and the    *)
(* batch run (main).                                                       *)
(*                                                                         *)
(* Numbers.  Array cells are float32 values.  A finite cell is held as an  *)
(* integer count of hundredths (Hundredths units make one), so that the    *)
(* 1e-2 floor of the log transform is exactly one unit; the non-finite     *)
(* cells NaN, +inf and -inf are values of their own.  Transcendental       *)
(* results (log) are kept symbolic: the record names the function and its  *)
(* exact argument.                                                         *)
(***************************************************************************)
EXTENDS Integers, Sequences, FiniteSets, TLC

VARIABLES
    pc,               \* position of the operation under check
    call,             \* arguments of the function being called
    ret,              \* what the call returned or raised
    synthetic_files,  \* main: the glob of synthetic sample-set files
    idx,              \* main: position of the for loop in synthetic_files
    results,          \* main: the results list
    result_file,      \* main: what was dumped to result_file
    log,              \* warnings logged so far
    trace             \* main: which evaluators were invoked for which file

vars == <<pc, call, ret, synthetic_files, idx, results, result_file, log, trace>>

----------------------------------------------------------------------------
(* Bounds of the model *)

\* largest number of rows of a row collection handed to a function
MaxRows == 2

----------------------------------------------------------------------------
(* Values *)

\* fixed-point unit: a finite value v is held as v * Hundredths
Hundredths == 100

Fin(v) == [k |-> "fin", v |-> v]
NaN == [k |-> "nan", v |-> 0]
PInf == [k |-> "pinf", v |-> 0]
NInf == [k |-> "ninf", v |-> 0]

IsFinite(c) == c.k = "fin"

Min2(a, b) == IF a <= b THEN a ELSE b
Max2(a, b) == IF a >= b THEN a ELSE b

\* the column types of sdgym.synthesizers.utils
CATEGORICAL == "categorical"
CONTINUOUS == "continuous"
ORDINAL == "ordinal"

\* a Column Descriptor; every descriptor carries all fields so that
\* descriptors of different types compare
Col(name, type, min, max, size) ==
    [name |-> name, type |-> type, min |-> min, max |-> max, size |-> size]

----------------------------------------------------------------------------
(* Python and numpy primitives used by the encoder *)

\* int(col) of a float32: truncation toward zero; NaN and the infinities raise
PyInt(c) ==
    IF c.k = "nan" THEN [status |-> "ValueError", n |-> 0]
    ELSE IF c.k \in {"pinf", "ninf"} THEN [status |-> "OverflowError", n |-> 0]
    ELSE [status |-> "ok",
          n |-> IF c.v >= 0 THEN c.v \div Hundredths
                ELSE -((-c.v) \div Hundredths)]

\* a feature value: f names how it was produced, a and b are its operands
Feat(f, a, b) == [f |-> f, a |-> a, b |-> b]

\* np.log(max(col, 1e-2)): the builtin max keeps col unless 1e-2 > col, so a
\* NaN stays NaN, +inf stays +inf and -inf is floored to 1e-2
LogFloor(c) ==
    IF c.k = "nan" THEN Feat("nan", 0, 0)
    ELSE IF c.k = "pinf" THEN Feat("pinf", 0, 0)
    ELSE IF c.k = "ninf" THEN Feat("log", 1, 0)
    ELSE Feat("log", Max2(c.v, 1), 0)

\* (col - min) / (max - min) * 5 in IEEE arithmetic: the quotient is kept as
\* the exact fraction a / b; a zero denominator gives an infinity or NaN
Rescale(c, min, max) ==
    IF c.k = "nan" THEN Feat("nan", 0, 0)
    ELSE IF c.k = "pinf" THEN
        IF max - min >= 0 THEN Feat("pinf", 0, 0) ELSE Feat("ninf", 0, 0)
    ELSE IF c.k = "ninf" THEN
        IF max - min >= 0 THEN Feat("ninf", 0, 0) ELSE Feat("pinf", 0, 0)
    ELSE IF max - min = 0 THEN
        IF c.v - min = 0 THEN Feat("nan", 0, 0)
        ELSE IF c.v - min > 0 THEN Feat("pinf", 0, 0)
        ELSE Feat("ninf", 0, 0)
    ELSE Feat("lin", (c.v - min) * 5, max - min)

\* feature.append(col): the cell itself
Raw(c) == IF c.k = "fin" THEN Feat("raw", c.v, 0) ELSE Feat(c.k, 0, 0)

\* the threshold 1e3 of the log transform, in hundredths
LogThreshold == 1000 * Hundredths

\* UsesLog with the bound on max made strict (max > 1e3)
UsesLog_StrictMax(cinfo) == cinfo.min >= 0 /\ cinfo.max > LogThreshold

\* line 134: the test that selects the log transform
UsesLog(cinfo) == cinfo.min >= 0 /\ cinfo.max >= LogThreshold

\* lines 133-137: a continuous column
EncodeContinuous(c, cinfo) ==
    IF UsesLog(cinfo) THEN LogFloor(c) ELSE Rescale(c, cinfo.min, cinfo.max)

\* OneHot with the 1 written one position early (tmp[int(col) - 1] = 1)
OneHot_OffByOne(c, size) ==
    LET i == PyInt(c) IN
    IF i.status # "ok" THEN [status |-> i.status, block |-> <<>>]
    ELSE IF i.n >= size \/ i.n < -size THEN [status |-> "IndexError", block |-> <<>>]
    ELSE LET at == IF i.n >= 1 THEN i.n - 1 ELSE i.n - 1 + size IN
         [status |-> "ok",
          block |-> [p \in 1..size |-> IF p = at + 1 THEN Feat("bit", 1, 0)
                                        ELSE Feat("bit", 0, 0)]]

\* tmp = [0] * size; tmp[int(col)] = 1.  A Python list index i with
\* -size <= i < 0 counts from the end; any other index outside 0..size-1
\* raises IndexError.
OneHot(c, size) ==
    LET i == PyInt(c) IN
    IF i.status # "ok" THEN [status |-> i.status, block |-> <<>>]
    ELSE IF i.n >= size \/ i.n < -size THEN [status |-> "IndexError", block |-> <<>>]
    ELSE LET at == IF i.n >= 0 THEN i.n ELSE i.n + size IN
         [status |-> "ok",
          block |-> [p \in 1..size |-> IF p = at + 1 THEN Feat("bit", 1, 0)
                                        ELSE Feat("bit", 0, 0)]]

\* a label: None, an int (whole units) or a float (the cell, in hundredths)
NoLabel == [t |-> "none", k |-> "fin", v |-> 0]

\* ParseLabel with the final else dropped: any other tag is read as 'float'
ParseLabel_NoAssert(c, label_type) ==
    IF label_type = "int" THEN
        LET i == PyInt(c) IN
        [status |-> i.status, label |-> [t |-> "int", k |-> "fin", v |-> i.n]]
    ELSE [status |-> "ok", label |-> [t |-> "float", k |-> c.k, v |-> c.v]]

\* lines 124-131: the label column
ParseLabel(c, label_type) ==
    IF label_type = "int" THEN
        LET i == PyInt(c) IN
        [status |-> i.status, label |-> [t |-> "int", k |-> "fin", v |-> i.n]]
    ELSE IF label_type = "float" THEN
        [status |-> "ok", label |-> [t |-> "float", k |-> c.k, v |-> c.v]]
    ELSE [status |-> "AssertionError", label |-> NoLabel]

\* lines 124-148: what one cell adds to the row's feature vector and label
EncodeCell(col, cinfo, label_type) ==
    IF cinfo.name = "label" THEN
        LET l == ParseLabel(col, label_type) IN
        [status |-> l.status, add |-> <<>>, is_label |-> TRUE, label |-> l.label]
    ELSE IF cinfo.type = CONTINUOUS THEN
        [status |-> "ok", add |-> << EncodeContinuous(col, cinfo) >>,
         is_label |-> FALSE, label |-> NoLabel]
    ELSE IF cinfo.type = ORDINAL THEN
        [status |-> "ok", add |-> << Raw(col) >>, is_label |-> FALSE, label |-> NoLabel]
    ELSE IF cinfo.size <= 2 THEN
        [status |-> "ok", add |-> << Raw(col) >>, is_label |-> FALSE, label |-> NoLabel]
    ELSE
        LET h == OneHot(col, cinfo.size) IN
        [status |-> h.status, add |-> h.block, is_label |-> FALSE, label |-> NoLabel]

\* lines 123-148: the columns of one row from column j on; zip stops at the
\* shorter of row and meta
RECURSIVE EncodeCols(_, _, _, _, _, _)
EncodeCols(row, meta, label_type, j, feature, label) ==
    IF j > Min2(Len(row), Len(meta))
    THEN [status |-> "ok", feature |-> feature, label |-> label]
    ELSE
        LET c == EncodeCell(row[j], meta[j], label_type) IN
        IF c.status # "ok"
        THEN [status |-> c.status, feature |-> <<>>, label |-> NoLabel]
        ELSE EncodeCols(row, meta, label_type, j + 1, feature \o c.add,
                        IF c.is_label THEN c.label ELSE label)

\* lines 120-150: every row is encoded on its own; the first row that raises
\* ends the call with its exception
EncodeRows(data, meta, label_type) ==
    LET enc == [i \in 1..Len(data) |-> EncodeCols(data[i], meta, label_type, 1, <<>>, NoLabel)]
        failing == {i \in 1..Len(data) : enc[i].status # "ok"}
    IN
    IF failing # {}
    THEN [status |-> enc[CHOOSE i \in failing : \A h \in failing : i <= h].status,
          features |-> <<>>, labels |-> <<>>]
    ELSE [status |-> "ok",
          features |-> [i \in 1..Len(data) |-> enc[i].feature],
          labels |-> [i \in 1..Len(data) |-> enc[i].label]]

\* the permutations of 1..n: the orders np.random.shuffle can leave
Perms(n) == {p \in [1..n -> 1..n] : \A a, b \in 1..n : p[a] = p[b] => a = b}

\* lines 113-115: data.copy(), shuffle, data[:sample]
ShuffleTruncate(data, perm, sample) ==
    [i \in 1..Min2(Len(data), sample) |-> data[perm[i]]]

\* the default of make_features' sample parameter
DefaultFeatureSample == 50000

\* make_features(data, meta, label_column, label_type, sample); perm is the
\* order the unseeded shuffle produced
make_features(data, meta, label_type, sample, perm) ==
    EncodeRows(ShuffleTruncate(data, perm, sample), meta, label_type)

----------------------------------------------------------------------------
(* The batch run's variables while a single function is under check *)

NoReturn == [status |-> "none"]

BatchIdle ==
    /\ synthetic_files = <<>>
    /\ idx = 0
    /\ results = <<>>
    /\ result_file = [written |-> FALSE, content |-> <<>>]
    /\ log = <<>>
    /\ trace = {}

----------------------------------------------------------------------------
(* The feature encoder on its own: the inputs of SpecEnc *)

\* the label column (name 'label'); its own type plays no part in line 124
LabelCol == Col("label", CATEGORICAL, 0, 0, 2)

\* continuous columns on both sides of each bound of line 134
ContinuousCols ==
    { Col("c", CONTINUOUS, 0, LogThreshold, 0),
      Col("c", CONTINUOUS, 0, LogThreshold - 1, 0),
      Col("c", CONTINUOUS, -1, LogThreshold, 0),
      Col("c", CONTINUOUS, 0, 2 * LogThreshold, 0),
      Col("c", CONTINUOUS, 0, 10 * Hundredths, 0),
      Col("c", CONTINUOUS, 5 * Hundredths, 5 * Hundredths, 0) }

OrdinalCols == { Col("o", ORDINAL, 0, 0, 4) }

CategoricalCols == { Col("k", CATEGORICAL, 0, 0, n) : n \in 1..4 }

FeatureCols == ContinuousCols \cup OrdinalCols \cup CategoricalCols

\* the schema of the end-to-end scenario: categorical of size 2, continuous
\* in [0, 10], int label
ScenarioSchema ==
    << Col("k", CATEGORICAL, 0, 0, 2),
       Col("c", CONTINUOUS, 0, 10 * Hundredths, 0),
       LabelCol >>

\* schemas: one feature column, alone or with the label before or after it,
\* and the scenario's schema
Schemas ==
    {<<d>> : d \in FeatureCols}
        \cup {<<d, LabelCol>> : d \in FeatureCols}
        \cup {<<LabelCol, d>> : d \in FeatureCols}
        \cup {ScenarioSchema}

\* the cells a generator can put in a column of the given descriptor
CellsOf(cinfo) ==
    IF cinfo.name = "label" THEN {Fin(150), PInf}
    ELSE IF cinfo.type = CONTINUOUS THEN {Fin(0), Fin(5 * Hundredths), NaN, NInf}
    ELSE IF cinfo.type = ORDINAL THEN {Fin(200), NaN}
    ELSE IF cinfo.size <= 2 THEN {Fin(0), Fin(100)}
    ELSE {Fin(0), Fin(250), Fin(-100), Fin(cinfo.size * Hundredths)}

RowsOf(meta) == {r \in [1..Len(meta) -> UNION {CellsOf(meta[j]) : j \in 1..Len(meta)}] :
                    \A j \in 1..Len(meta) : r[j] \in CellsOf(meta[j])}

DataOf(meta) == UNION {[1..n -> RowsOf(meta)] : n \in 0..MaxRows}

LabelTypes == {"int", "float", "str"}

InitEnc ==
    /\ pc = "ready"
    /\ \E meta \in Schemas : \E data \in DataOf(meta) : \E label_type \in LabelTypes :
         call = [fn |-> "make_features", data |-> data, meta |-> meta,
                 label_type |-> label_type, sample |-> DefaultFeatureSample,
                 perm |-> <<>>]
    /\ ret = NoReturn
    /\ BatchIdle

\* one call of make_features: the caller's sample and the shuffle's order are
\* chosen here
Encode ==
    /\ pc = "ready"
    /\ call.fn = "make_features"
    /\ \E sample \in {1, DefaultFeatureSample} : \E perm \in Perms(Len(call.data)) :
         /\ call' = [call EXCEPT !.sample = sample, !.perm = perm]
         /\ ret' = make_features(call.data, call.meta, call.label_type, sample, perm)
    /\ pc' = "returned"
    /\ UNCHANGED <<synthetic_files, idx, results, result_file, log, trace>>

NextEnc == Encode

SpecEnc == InitEnc /\ [][NextEnc]_vars

----------------------------------------------------------------------------
(* The utility evaluators *)

\* DATASET_MODELS_MAP: the names of the models of each battery, in order
DATASET_MODELS_MAP ==
    [mnist12 |-> <<"Decision Tree (max_depth=30)", "Logistic Regression", "MLP (100)">>,
     mnist28 |-> <<"Decision Tree (max_depth=30)", "Logistic Regression", "MLP (100)">>,
     adult |-> <<"Decision Tree (max_depth=20)", "Adaboost (estimator=50)",
                 "Logistic Regression", "MLP (50)">>,
     census |-> <<"Decision Tree (max_depth=30)", "Adaboost (estimator=50)", "MLP (100)">>,
     credit |-> <<"Decision Tree (max_depth=30)", "Adaboost (estimator=50)", "MLP (100)">>,
     intrusion |-> <<"Decision Tree (max_depth=30)", "MLP (100)">>,
     covtype |-> <<"Decision Tree (max_depth=30)", "MLP (100)">>,
     news |-> <<"Linear Regression", "MLP (100)">>]

\* get_models: DATASET_MODELS_MAP.get(dataset), ValueError when missing or empty
get_models(dataset) ==
    IF dataset \in DOMAIN DATASET_MODELS_MAP /\ DATASET_MODELS_MAP[dataset] # <<>>
    THEN [status |-> "ok", models |-> DATASET_MODELS_MAP[dataset]]
    ELSE [status |-> "ValueError", models |-> <<>>]

\* BAYESIAN_PARAMETER without the row of 'ring'
BAYESIAN_PARAMETER_NoRing == [grid |-> 30, gridr |-> 30]

\* BAYESIAN_PARAMETER: the component count of each mixture-model dataset
BAYESIAN_PARAMETER == [grid |-> 30, gridr |-> 30, ring |-> 10]

\* the ids of DATASET_EVALUATOR_MAP by the evaluator registered for them
MultiIds == {"mnist12", "mnist28", "covtype", "intrusion"}
BinaryIds == {"credit", "census", "adult"}
RegressionIds == {"news"}
UtilityIds == MultiIds \cup BinaryIds \cup RegressionIds
GmmIds == {"grid", "gridr", "ring"}
BayesianIds == {"asia", "alarm", "child", "insurance"}

\* DATASET_EVALUATOR_MAP: the evaluator function registered for each id
DATASET_EVALUATOR_MAP ==
    [d \in UtilityIds \cup GmmIds \cup BayesianIds |->
        IF d \in MultiIds THEN "default_multi_classification"
        ELSE IF d \in BinaryIds THEN "default_binary_classification"
        ELSE IF d \in RegressionIds THEN "news_regression"
        ELSE IF d \in GmmIds THEN "default_gmm_likelihood"
        ELSE "default_bayesian_likelihood"]

\* np.unique(y_train)
Unique(y) == {y[i] : i \in 1..Len(y)}

\* a metric of sklearn.metrics applied to (y_true, y_pred), kept symbolic
Score(fn, y_true, y_pred) == [fn |-> fn, y_true |-> y_true, y_pred |-> y_pred]

\* clf.predict(x_test) of a fitted model: one value per test row, known only
\* to the library
Predicted(name, x_test) ==
    [i \in 1..Len(x_test) |-> [t |-> "predicted", k |-> name, v |-> i]]

\* ConstantPrediction with the list sized by the labels instead of the rows
ConstantPrediction_WrongLength(unique_labels, x_test) ==
    [i \in 1..Cardinality(unique_labels) |-> CHOOSE u \in unique_labels : TRUE]

\* lines 47, 73: [unique_labels[0]] * len(x_test)
ConstantPrediction(unique_labels, x_test) ==
    [i \in 1..Len(x_test) |-> CHOOSE u \in unique_labels : TRUE]

\* lines 52-63 and 78-87: the score record of one classifier
ClassificationRecord(variant, name, y_test, pred) ==
    IF variant = "multi"
    THEN [name |-> name,
          metrics |-> << Score("accuracy", y_test, pred),
                         Score("macro_f1", y_test, pred),
                         Score("micro_f1", y_test, pred) >>]
    ELSE [name |-> name,
          metrics |-> << Score("accuracy", y_test, pred),
                         Score("f1", y_test, pred) >>]

\* lines 44-63 and 70-87: the loop over the classifiers from the m-th on.
\* lib[m] is what the library does when the m-th model is fitted; fits lists
\* the models clf.fit was called on.
RECURSIVE ClassifierLoop(_, _, _, _, _, _, _, _, _)
ClassifierLoop(variant, y_train, x_test, y_test, classifiers, lib, m, performance, fits) ==
    IF m > Len(classifiers)
    THEN [status |-> "ok", performance |-> performance, fits |-> fits]
    ELSE
        LET name == classifiers[m]
            unique_labels == Unique(y_train)
        IN
        IF Cardinality(unique_labels) = 1 THEN
            ClassifierLoop(variant, y_train, x_test, y_test, classifiers, lib, m + 1,
                Append(performance,
                       ClassificationRecord(variant, name, y_test,
                                            ConstantPrediction(unique_labels, x_test))),
                fits)
        ELSE IF lib[m] = "raise" THEN
            [status |-> "LibraryError", performance |-> <<>>, fits |-> Append(fits, name)]
        ELSE
            ClassifierLoop(variant, y_train, x_test, y_test, classifiers, lib, m + 1,
                Append(performance,
                       ClassificationRecord(variant, name, y_test, Predicted(name, x_test))),
                Append(fits, name))

default_multi_classification(x_train, y_train, x_test, y_test, classifiers, lib) ==
    ClassifierLoop("multi", y_train, x_test, y_test, classifiers, lib, 1, <<>>, <<>>)

default_binary_classification(x_train, y_train, x_test, y_test, classifiers, lib) ==
    ClassifierLoop("binary", y_train, x_test, y_test, classifiers, lib, 1, <<>>, <<>>)

\* the bounds of np.clip in news_regression
ClipLow == 1
ClipHigh == 20000

\* np.log(np.clip(y, 1, 20000)) of a list of int labels
LogClip(y) ==
    [i \in 1..Len(y) |-> [t |-> "log", k |-> "fin",
                          v |-> Max2(ClipLow, Min2(ClipHigh, y[i].v))]]

\* lines 96-107: the loop over the regressors from the m-th on
RECURSIVE RegressorLoop(_, _, _, _, _, _, _, _)
RegressorLoop(y_train, x_test, y_test, regressors, lib, m, performance, fits) ==
    IF m > Len(regressors)
    THEN [status |-> "ok", performance |-> performance, fits |-> fits]
    ELSE
        LET name == regressors[m] IN
        IF lib[m] = "raise" THEN
            [status |-> "LibraryError", performance |-> <<>>, fits |-> Append(fits, name)]
        ELSE
            RegressorLoop(y_train, x_test, y_test, regressors, lib, m + 1,
                Append(performance,
                       [name |-> name,
                        metrics |-> << Score("r2", y_test, Predicted(name, x_test)) >>]),
                Append(fits, name))

news_regression(x_train, y_train, x_test, y_test, regressors, lib) ==
    RegressorLoop(LogClip(y_train), x_test, LogClip(y_test), regressors, lib, 1, <<>>, <<>>)

\* what the library may do at each fit of a battery: the fits succeed up to
\* the k-th, which raises (nothing is fitted after a fit that raised)
LibChoices(models) ==
    {[m \in 1..Len(models) |-> IF m < k THEN "fit" ELSE "raise"] : k \in 1..(Len(models) + 1)}

\* evaluator(x_train, y_train, x_test, y_test, models): the call of line 312
\* on the function found in DATASET_EVALUATOR_MAP; a function that does not
\* take five arguments raises TypeError
UtilityEvaluator(evaluator, x_train, y_train, x_test, y_test, models, lib) ==
    IF evaluator = "default_multi_classification"
    THEN default_multi_classification(x_train, y_train, x_test, y_test, models, lib)
    ELSE IF evaluator = "default_binary_classification"
    THEN default_binary_classification(x_train, y_train, x_test, y_test, models, lib)
    ELSE IF evaluator = "news_regression"
    THEN news_regression(x_train, y_train, x_test, y_test, models, lib)
    ELSE [status |-> "TypeError", performance |-> <<>>, fits |-> <<>>]

----------------------------------------------------------------------------
(* The utility evaluators on their own: the inputs of SpecUtil *)

IntLabel(n) == [t |-> "int", k |-> "fin", v |-> n]

\* label values of the training and test rows
LabelValues == {IntLabel(0), IntLabel(1)}

LabelLists(lo) == UNION {[1..n -> LabelValues] : n \in lo..MaxRows}

\* one encoded row: the evaluators only pass the features on to the library
SomeFeatures == << Feat("raw", 0, 0) >>

InitUtil ==
    /\ pc = "ready"
    /\ \E dataset \in UtilityIds : \E y_train \in LabelLists(0) : \E y_test \in LabelLists(1) :
         call = [fn |-> "evaluator", dataset |-> dataset,
                 x_train |-> [i \in 1..Len(y_train) |-> SomeFeatures], y_train |-> y_train,
                 x_test |-> [i \in 1..Len(y_test) |-> SomeFeatures], y_test |-> y_test,
                 models |-> get_models(dataset).models]
    /\ ret = NoReturn
    /\ BatchIdle

\* one call of the evaluator registered for call.dataset
Evaluate ==
    /\ pc = "ready"
    /\ call.fn = "evaluator"
    /\ \E lib \in LibChoices(call.models) :
         LET r == UtilityEvaluator(DATASET_EVALUATOR_MAP[call.dataset], call.x_train, call.y_train,
                                   call.x_test, call.y_test, call.models, lib)
         IN /\ ret' = [status |-> r.status, performance |-> r.performance]
            /\ trace' = {[op |-> "fit", model |-> r.fits[i], at |-> i] : i \in 1..Len(r.fits)}
    /\ pc' = "returned"
    /\ UNCHANGED <<call, synthetic_files, idx, results, result_file, log>>

NextUtil == Evaluate

SpecUtil == InitUtil /\ [][NextUtil]_vars

----------------------------------------------------------------------------
(* The density evaluators and the dispatcher *)

\* the record both density strategies return
LikelihoodRecord ==
    << [name |-> "default",
        metrics |-> << Score("syn_likelihood", <<>>, <<>>),
                       Score("test_likelihood", <<>>, <<>>) >>] >>

\* default_gmm_likelihood(trainset, testset, n): two fits of a GaussianMixture
\* of n components; ext is what the library does
default_gmm_likelihood(trainset, testset, n, ext) ==
    IF ext = "raise"
    THEN [status |-> "LibraryError", performance |-> <<>>]
    ELSE [status |-> "ok", performance |-> LikelihoodRecord]

\* mapper: info['i2s'][int(row[id_])] for every column of every row; i2s has
\* size entries, and a negative index in -size..-1 counts from the end
RECURSIVE MapCells(_, _, _)
MapCells(row, meta, j) ==
    IF j > Len(meta) THEN "ok"
    ELSE IF j > Len(row) THEN "IndexError"
    ELSE LET i == PyInt(row[j]) IN
         IF i.status # "ok" THEN i.status
         ELSE IF i.n >= meta[j].size \/ i.n < -meta[j].size THEN "IndexError"
         ELSE MapCells(row, meta, j + 1)

\* mapper(data, meta): the first row that raises ends the call
mapper(data, meta) ==
    LET mapped == [i \in 1..Len(data) |-> MapCells(data[i], meta, 1)]
        failing == {i \in 1..Len(data) : mapped[i] # "ok"}
    IN
    IF failing = {} THEN "ok"
    ELSE mapped[CHOOSE i \in failing : \A h \in failing : i <= h]

\* default_bayesian_likelihood(dataset, trainset, testset, meta): struct is
\* the number of files the glob of line 245 finds, ext what the library does
default_bayesian_likelihood(dataset, trainset, testset, meta, struct, ext) ==
    LET trainset_mapped == mapper(trainset, meta)
        testset_mapped == mapper(testset, meta)
    IN
    IF struct # 1 THEN [status |-> "AssertionError", performance |-> <<>>]
    ELSE IF trainset_mapped # "ok" THEN [status |-> trainset_mapped, performance |-> <<>>]
    ELSE IF testset_mapped # "ok" THEN [status |-> testset_mapped, performance |-> <<>>]
    ELSE IF ext = "raise" THEN [status |-> "LibraryError", performance |-> <<>>]
    ELSE [status |-> "ok", performance |-> LikelihoodRecord]

\* a line of logging.warning
Warning(msg, dataset) == [msg |-> msg, dataset |-> dataset]

\* one invocation made by the dispatcher, as the history keeps it
Invocation(fn, label_type, models, n, y_train, y_test) ==
    [fn |-> fn, label_type |-> label_type, models |-> models, n |-> n,
     y_train |-> y_train, y_test |-> y_test]

\* what a call of evalute_dataset did: how it ended, what it returned (None or
\* a performance list), the warnings it logged and the invocations it made
Outcome(status, kind, performance, warnings, calls) ==
    [status |-> status, result |-> [kind |-> kind, performance |-> performance],
     warnings |-> warnings, calls |-> calls]

\* lines 308-312: the utility branch.  env holds what the surroundings decide
\* during the call: the two shuffles and the library's fits.
UtilityBranch(dataset, trainset, testset, meta, env) ==
    LET tr == make_features(trainset, meta, "int", DefaultFeatureSample, env.perm_train)
        c1 == << Invocation("make_features", "int", <<>>, 0, <<>>, <<>>) >>
    IN
    IF tr.status # "ok" THEN Outcome(tr.status, "None", <<>>, <<>>, c1)
    ELSE
        LET te == make_features(testset, meta, "int", DefaultFeatureSample, env.perm_test)
            c2 == Append(c1, Invocation("make_features", "int", <<>>, 0, <<>>, <<>>))
        IN
        IF te.status # "ok" THEN Outcome(te.status, "None", <<>>, <<>>, c2)
        ELSE
            LET g == get_models(dataset) IN
            IF g.status # "ok" THEN Outcome(g.status, "None", <<>>, <<>>, c2)
            ELSE
                LET r == UtilityEvaluator(DATASET_EVALUATOR_MAP[dataset],
                                          tr.features, tr.labels,
                                          te.features, te.labels, g.models, env.lib)
                    c3 == Append(c2, Invocation(DATASET_EVALUATOR_MAP[dataset], "", g.models,
                                                0, tr.labels, te.labels))
                IN
                IF r.status # "ok" THEN Outcome(r.status, "None", <<>>, <<>>, c3)
                ELSE Outcome("ok", "performance", r.performance, <<>>, c3)

\* lines 314-316: the mixture-model branch; a missing or zero parameter falls
\* off the end of the function, which returns None
GmmBranch(dataset, trainset, testset, env) ==
    IF dataset \in DOMAIN BAYESIAN_PARAMETER /\ BAYESIAN_PARAMETER[dataset] # 0
    THEN
        LET n == BAYESIAN_PARAMETER[dataset]
            evaluator == DATASET_EVALUATOR_MAP[dataset]
            r == IF evaluator = "default_gmm_likelihood"
                 THEN default_gmm_likelihood(trainset, testset, n, env.ext)
                 ELSE [status |-> "TypeError", performance |-> <<>>]
            c == << Invocation(evaluator, "", <<>>, n, <<>>, <<>>) >>
        IN
        IF r.status # "ok" THEN Outcome(r.status, "None", <<>>, <<>>, c)
        ELSE Outcome("ok", "performance", r.performance, <<>>, c)
    ELSE Outcome("ok", "None", <<>>, <<>>, <<>>)

\* evalute_dataset(dataset, trainset, testset, meta); a call made through the
\* registry on a function of another signature raises TypeError
evalute_dataset(dataset, trainset, testset, meta, env) ==
    IF dataset \notin DOMAIN DATASET_EVALUATOR_MAP
    THEN Outcome("ok", "None", <<>>, << Warning("evaluation not defined", dataset) >>, <<>>)
    ELSE IF dataset \in {"asia", "alarm", "child", "insurance"} THEN
        LET evaluator == DATASET_EVALUATOR_MAP[dataset]
            r == IF evaluator = "default_bayesian_likelihood"
                 THEN default_bayesian_likelihood(dataset, trainset, testset, meta,
                                                  env.struct, env.ext)
                 ELSE [status |-> "TypeError", performance |-> <<>>]
            c == << Invocation(evaluator, "", <<>>, 0, <<>>, <<>>) >>
        IN
        IF r.status # "ok" THEN Outcome(r.status, "None", <<>>, <<>>, c)
        ELSE Outcome("ok", "performance", r.performance, <<>>, c)
    ELSE IF dataset \in {"mnist12", "mnist28", "covtype", "intrusion",
                         "credit", "census", "adult", "news"}
    THEN UtilityBranch(dataset, trainset, testset, meta, env)
    ELSE GmmBranch(dataset, trainset, testset, env)

----------------------------------------------------------------------------
(* The dispatcher on its own: the inputs of SpecDispatch *)

\* an id with no row in DATASET_EVALUATOR_MAP
UnknownIds == {"toy"}

DatasetIds == DOMAIN DATASET_EVALUATOR_MAP \cup UnknownIds

\* the schema stored with each dataset: the scenario's schema for the utility
\* and unknown ids, categorical columns for the structural ids, continuous
\* columns for the mixture-model ids
MetaOf(dataset) ==
    IF dataset \in BayesianIds
    THEN << Col("a", CATEGORICAL, 0, 0, 2), Col("b", CATEGORICAL, 0, 0, 3) >>
    ELSE IF dataset \in GmmIds
    THEN << Col("x", CONTINUOUS, 0, 10 * Hundredths, 0),
            Col("y", CONTINUOUS, 0, 10 * Hundredths, 0) >>
    ELSE ScenarioSchema

\* cells of real rows: finite and within the schema
RealCellsOf(cinfo) ==
    IF cinfo.name = "label" THEN {Fin(150)}
    ELSE IF cinfo.type = CONTINUOUS THEN {Fin(5 * Hundredths)}
    ELSE {Fin(0), Fin(100)}

\* cells of synthetic rows: a generator may also emit values that are not
\* finite or not in the schema
SynCellsOf(cinfo) ==
    IF cinfo.name = "label" THEN {Fin(150), PInf}
    ELSE IF cinfo.type = CONTINUOUS THEN {Fin(5 * Hundredths), NaN}
    ELSE IF cinfo.size <= 2 THEN {Fin(0), Fin(100)}
    ELSE {Fin(0), Fin(cinfo.size * Hundredths)}

RealRows(meta) == {r \in [1..Len(meta) -> UNION {RealCellsOf(meta[j]) : j \in 1..Len(meta)}] :
                     \A j \in 1..Len(meta) : r[j] \in RealCellsOf(meta[j])}

SynRows(meta) == {r \in [1..Len(meta) -> UNION {SynCellsOf(meta[j]) : j \in 1..Len(meta)}] :
                    \A j \in 1..Len(meta) : r[j] \in SynCellsOf(meta[j])}

\* the orders of the shuffle that are followed: both of them for an array of
\* two rows, the identity and the reversal for a longer one
Shuffles(n) ==
    IF n <= 2 THEN Perms(n)
    ELSE {[i \in 1..n |-> i], [i \in 1..n |-> n + 1 - i]}

\* what the surroundings may decide during one call of evalute_dataset
Envs(dataset, trainset, testset) ==
    IF dataset \in UtilityIds THEN
        [perm_train : Shuffles(Len(trainset)), perm_test : Shuffles(Len(testset)),
         lib : LibChoices(get_models(dataset).models), struct : {1}, ext : {"ok"}]
    ELSE IF dataset \in BayesianIds THEN
        [perm_train : {<<>>}, perm_test : {<<>>}, lib : {<<>>},
         struct : {0, 1}, ext : {"ok", "raise"}]
    ELSE
        [perm_train : {<<>>}, perm_test : {<<>>}, lib : {<<>>},
         struct : {1}, ext : {"ok", "raise"}]

NoOutcome == Outcome("none", "None", <<>>, <<>>, <<>>)

InitDispatch ==
    /\ pc = "ready"
    /\ \E dataset \in DatasetIds :
         \E trainset \in UNION {[1..n -> SynRows(MetaOf(dataset))] : n \in 1..MaxRows} :
           \E testset \in [1..MaxRows -> RealRows(MetaOf(dataset))] :
             call = [fn |-> "evalute_dataset", dataset |-> dataset, trainset |-> trainset,
                     testset |-> testset, meta |-> MetaOf(dataset)]
    /\ ret = NoOutcome
    /\ BatchIdle

\* one call of evalute_dataset
Dispatch ==
    /\ pc = "ready"
    /\ call.fn = "evalute_dataset"
    /\ \E env \in Envs(call.dataset, call.trainset, call.testset) :
         ret' = evalute_dataset(call.dataset, call.trainset, call.testset, call.meta, env)
    /\ log' = log \o ret'.warnings
    /\ pc' = "returned"
    /\ UNCHANGED <<call, synthetic_files, idx, results, result_file, trace>>

NextDispatch == Dispatch

SpecDispatch == InitDispatch /\ [][NextDispatch]_vars

----------------------------------------------------------------------------
(* The distance evaluator *)
(* Distances are held in hundredths, rounded down; a squared term is clamped *)
(* at Huge, which a column of zero spread reaches at once (its divisor is    *)
(* the 1e-6 added to the standard deviation).  The rows of the training set  *)
(* are real data: their cells are finite.                                     *)

\* the clamp of a squared normalised difference, in hundredths
Huge == 1000000

\* the sum of s[lo..hi], halving the range
RECURSIVE SumRange(_, _, _)
SumRange(s, lo, hi) ==
    IF lo > hi THEN 0
    ELSE IF lo = hi THEN s[lo]
    ELSE LET mid == (lo + hi) \div 2 IN SumRange(s, lo, mid) + SumRange(s, mid + 1, hi)

SumSeq(s, n) == SumRange(s, 1, n)

\* the largest r in lo..hi with r * r <= x
RECURSIVE ISqrtBetween(_, _, _)
ISqrtBetween(x, lo, hi) ==
    IF lo >= hi THEN lo
    ELSE LET mid == (lo + hi + 1) \div 2 IN
         IF mid * mid <= x THEN ISqrtBetween(x, mid, hi)
         ELSE ISqrtBetween(x, lo, mid - 1)

\* np.sqrt, rounded down
ISqrt(x) == ISqrtBetween(x, 0, Min2(x, 46340))

\* lines 320-326: mask_d
MaskD(meta) ==
    [j \in 1..Len(meta) |-> IF meta[j].type \in {CATEGORICAL, ORDINAL} THEN 1 ELSE 0]

\* line 328: the spread of column j, as n^2 times its variance
Spread(trainset, j) ==
    LET n == Len(trainset)
        xs == [i \in 1..n |-> trainset[i][j].v]
        sq == [i \in 1..n |-> xs[i] * xs[i]]
    IN n * SumSeq(sq, n) - SumSeq(xs, n) * SumSeq(xs, n)

\* line 336-337: ((t - c) * (1 - mask) / 2 / std) ** 2 for one cell
ContinuousTerm(t, c, trainset, j) ==
    LET n == Len(trainset)
        v == Spread(trainset, j)
    IN
    IF t - c = 0 THEN 0
    ELSE IF v = 0 THEN Huge
    ELSE Min2(Huge, (Hundredths * (t - c) * (t - c) * n * n) \div (4 * v))

\* lines 333-338 for one training row: distance_c + distance_d, in hundredths
RowSum(trow, current, trainset, mask_d) ==
    LET cols == 1..Len(mask_d)
        distance_d == Cardinality({j \in cols : mask_d[j] = 1 /\ trow[j].v - current[j].v > 0})
        terms == [j \in cols |-> IF mask_d[j] = 1 THEN 0
                                 ELSE ContinuousTerm(trow[j].v, current[j].v, trainset, j)]
    IN distance_d * Hundredths + SumSeq(terms, Len(mask_d))

\* lines 332-339 for one synthetic row: sqrt of the least sum over the
\* training rows.  A NaN cell, or an infinite cell under the mask (inf * 0),
\* makes the distance NaN; an infinite cell of a continuous column makes it
\* +inf.
NearestDistance(trainset, current, mask_d) ==
    LET cols == 1..Len(mask_d) IN
    IF \E j \in cols : current[j].k = "nan" \/ (current[j].k # "fin" /\ mask_d[j] = 1)
    THEN NaN
    ELSE IF \E j \in cols : current[j].k # "fin"
    THEN PInf
    ELSE LET sums == {RowSum(trainset[t], current, trainset, mask_d) : t \in 1..Len(trainset)}
             least == CHOOSE m \in sums : \A o \in sums : m <= o
         IN Fin(ISqrt(Hundredths * least))

\* line 341: np.mean(dis_all); the mean of an empty list is NaN
Mean(dis_all) ==
    LET n == Len(dis_all) IN
    IF n = 0 THEN NaN
    ELSE IF \E i \in 1..n : dis_all[i].k = "nan" THEN NaN
    ELSE IF \E i \in 1..n : dis_all[i].k = "pinf" THEN PInf
    ELSE Fin(SumSeq([i \in 1..n |-> dis_all[i].v], n) \div n)

\* the default of compute_distance's sample parameter
DefaultSample == 300

\* compute_distance(trainset, syn, meta, sample): range(sample) indexes syn
\* at 0..sample-1, and syn[i] raises IndexError at i = len(syn).  evaluated
\* is the number of distances in dis_all.
compute_distance(trainset, syn, meta, sample) ==
    LET mask_d == MaskD(meta) IN
    IF sample > Len(syn)
    THEN [status |-> "IndexError", distance |-> NaN, evaluated |-> Len(syn)]
    ELSE LET dis_all == [i \in 1..sample |-> NearestDistance(trainset, syn[i], mask_d)]
         IN [status |-> "ok", distance |-> Mean(dis_all), evaluated |-> sample]

----------------------------------------------------------------------------
(* The distance evaluator on its own: the inputs of SpecDist *)

\* largest sample cap passed to compute_distance
MaxCap == 3

\* cells of real training rows, with two values in the continuous columns
TrainCellsOf(cinfo) ==
    IF cinfo.name = "label" THEN {Fin(0), Fin(100)}
    ELSE IF cinfo.type = CONTINUOUS THEN {Fin(2 * Hundredths), Fin(5 * Hundredths)}
    ELSE {Fin(0), Fin(100)}

TrainRows(meta) == {r \in [1..Len(meta) -> UNION {TrainCellsOf(meta[j]) : j \in 1..Len(meta)}] :
                      \A j \in 1..Len(meta) : r[j] \in TrainCellsOf(meta[j])}

DistanceSchemas == {MetaOf("adult"), MetaOf("asia"), MetaOf("grid")}

InitDist ==
    /\ pc = "ready"
    /\ \E meta \in DistanceSchemas :
         \E trainset \in UNION {[1..n -> TrainRows(meta)] : n \in 1..MaxRows} :
           \E syn \in UNION {[1..n -> SynRows(meta)] : n \in 0..MaxRows} :
             \E sample \in 0..MaxCap :
               call = [fn |-> "compute_distance", trainset |-> trainset, syn |-> syn,
                       meta |-> meta, sample |-> sample]
    /\ ret = NoReturn
    /\ BatchIdle

\* one call of compute_distance
Distance ==
    /\ pc = "ready"
    /\ call.fn = "compute_distance"
    /\ ret' = compute_distance(call.trainset, call.syn, call.meta, call.sample)
    /\ pc' = "returned"
    /\ UNCHANGED <<call, synthetic_files, idx, results, result_file, log, trace>>

NextDist == Distance

SpecDist == InitDist /\ [][NextDist]_vars

----------------------------------------------------------------------------
(* The batch run: the loop of main over the synthetic sample-set files *)

\* largest number of files the glob of line 371 finds
MaxFiles == 2

\* the real rows stored for a dataset: every column at its low and at its
\* high training value
LowRow(meta) ==
    [j \in 1..Len(meta) |-> CHOOSE c \in TrainCellsOf(meta[j]) :
                                \A o \in TrainCellsOf(meta[j]) : c.v <= o.v]
HighRow(meta) ==
    [j \in 1..Len(meta) |-> CHOOSE c \in TrainCellsOf(meta[j]) :
                                \A o \in TrainCellsOf(meta[j]) : c.v >= o.v]

\* np.load(data_filename[0])['train'] and ['test']
RealTrainOf(dataset) == << LowRow(MetaOf(dataset)), HighRow(MetaOf(dataset)) >>
RealTestOf(dataset) == << HighRow(MetaOf(dataset)), LowRow(MetaOf(dataset)) >>

\* the column of a synthetic array that holds its bad cell, if it has one:
\* the first continuous column, or the first column
BadCol(meta) ==
    IF \E j \in 1..Len(meta) : meta[j].type = CONTINUOUS /\ meta[j].name # "label"
    THEN CHOOSE j \in 1..Len(meta) :
            /\ meta[j].type = CONTINUOUS /\ meta[j].name # "label"
            /\ \A h \in 1..(j - 1) : ~(meta[h].type = CONTINUOUS /\ meta[h].name # "label")
    ELSE 1

BadCell(bad) ==
    IF bad = "nan" THEN NaN ELSE IF bad = "pinf" THEN PInf ELSE NInf

\* np.load(synthetic_file)['syn']: file.rows rows that alternate between two
\* valid rows; the first row holds the file's bad cell
LoadSyn(file) ==
    LET meta == MetaOf(file.dataset) IN
    [i \in 1..file.rows |->
        IF i = 1 /\ file.bad # "none"
        THEN [LowRow(meta) EXCEPT ![BadCol(meta)] = BadCell(file.bad)]
        ELSE IF i % 2 = 1 THEN LowRow(meta) ELSE HighRow(meta)]

\* np.any(np.isnan(syn)) of line 380
AnyIsNan(syn) == \E i \in 1..Len(syn) : \E j \in 1..Len(syn[i]) : syn[i][j].k = "nan"

\* the synthetic files a folder may hold: dataset_iter_step.npz with an array
\* of DefaultSample rows or of the scenario's 50
ScenarioRows == 50

SyntheticFile(dataset, rows, bad) ==
    [dataset |-> dataset, iter |-> 0, step |-> 0, rows |-> rows, bad |-> bad]

FileCatalogue ==
    { SyntheticFile("adult", DefaultSample, "none"),
      SyntheticFile("adult", ScenarioRows, "none"),
      SyntheticFile("adult", ScenarioRows, "nan"),
      SyntheticFile("news", DefaultSample, "none"),
      SyntheticFile("grid", DefaultSample, "none"),
      SyntheticFile("grid", DefaultSample, "nan"),
      SyntheticFile("grid", DefaultSample, "pinf"),
      SyntheticFile("grid", DefaultSample, "ninf"),
      SyntheticFile("asia", DefaultSample, "none"),
      SyntheticFile("toy", DefaultSample, "none"),
      SyntheticFile("toy", ScenarioRows, "none") }

\* the numbers of files a glob of lines 391-392 may find
GlobCounts == 0..2

Init ==
    /\ pc = "loop"
    /\ synthetic_files \in UNION {[1..n -> FileCatalogue] : n \in 0..MaxFiles}
    /\ idx = 1
    /\ results = <<>>
    /\ result_file = [written |-> FALSE, content |-> <<>>]
    /\ log = <<>>
    /\ trace = {}
    /\ call = [fn |-> "main"]
    /\ ret = NoReturn

InLoop == pc = "loop" /\ idx <= Len(synthetic_files)

Event(fn) == [file |-> idx, fn |-> fn]

\* lines 379-381: the array holds a NaN; the file is skipped
SkipNaN ==
    /\ InLoop
    /\ AnyIsNan(LoadSyn(synthetic_files[idx]))
    /\ idx' = idx + 1
    /\ UNCHANGED <<pc, call, ret, synthetic_files, results, result_file, log, trace>>

\* lines 391-396: the dataset's array file is not found exactly once
SkipNoData ==
    /\ InLoop
    /\ ~AnyIsNan(LoadSyn(synthetic_files[idx]))
    /\ \E data_filename \in GlobCounts : data_filename # 1
    /\ log' = Append(log, Warning("Skip. Can't find dataset", synthetic_files[idx].dataset))
    /\ idx' = idx + 1
    /\ UNCHANGED <<pc, call, ret, synthetic_files, results, result_file, trace>>

\* lines 391-400: the dataset's metadata file is not found exactly once
SkipNoMeta ==
    /\ InLoop
    /\ ~AnyIsNan(LoadSyn(synthetic_files[idx]))
    /\ \E data_filename \in GlobCounts : \E meta_filename \in GlobCounts :
         data_filename = 1 /\ meta_filename # 1
    /\ log' = Append(log, Warning("Skip. Can't find meta", synthetic_files[idx].dataset))
    /\ idx' = idx + 1
    /\ UNCHANGED <<pc, call, ret, synthetic_files, results, result_file, trace>>

\* lines 402-408 of an iteration that reaches the dispatcher
Dispatched(env) ==
    LET file == synthetic_files[idx] IN
    evalute_dataset(file.dataset, LoadSyn(file), RealTestOf(file.dataset),
                    MetaOf(file.dataset), env)

\* line 410
Distanced ==
    LET file == synthetic_files[idx] IN
    compute_distance(RealTrainOf(file.dataset), LoadSyn(file), MetaOf(file.dataset),
                     DefaultSample)

\* lines 402-419: both files are found and the dispatcher is called.  An
\* exception raised by the dispatcher (line 408) or by the distance evaluator
\* (line 410) is caught nowhere in main: the run ends there.  Otherwise the
\* record is appended and the loop goes on.
EvaluateFile ==
    /\ InLoop
    /\ ~AnyIsNan(LoadSyn(synthetic_files[idx]))
    /\ \E env \in Envs(synthetic_files[idx].dataset, LoadSyn(synthetic_files[idx]),
                       RealTestOf(synthetic_files[idx].dataset)) :
         \E performance \in {Dispatched(env)} : \E distance \in {Distanced} :
         LET file == synthetic_files[idx] IN
         /\ log' = log \o performance.warnings
         /\ IF performance.status # "ok" THEN
                /\ trace' = trace \cup {Event("evalute_dataset")}
                /\ ret' = [status |-> performance.status]
                /\ pc' = "aborted"
                /\ UNCHANGED <<idx, results>>
            ELSE IF distance.status # "ok" THEN
                /\ trace' = trace \cup {Event("evalute_dataset"), Event("compute_distance")}
                /\ ret' = [status |-> distance.status]
                /\ pc' = "aborted"
                /\ UNCHANGED <<idx, results>>
            ELSE
                /\ trace' = trace \cup {Event("evalute_dataset"), Event("compute_distance"),
                                        Event("results.append")}
                /\ results' = Append(results,
                                     [dataset |-> file.dataset, iter |-> file.iter,
                                      step |-> file.step,
                                      performance |-> performance.result,
                                      distance |-> distance.distance])
                /\ idx' = idx + 1
                /\ UNCHANGED <<pc, ret>>
    /\ UNCHANGED <<call, synthetic_files, result_file>>

\* lines 421-422: the loop is over and the results are dumped
WriteResults ==
    /\ pc = "loop"
    /\ idx > Len(synthetic_files)
    /\ result_file' = [written |-> TRUE, content |-> results]
    /\ pc' = "done"
    /\ UNCHANGED <<call, ret, synthetic_files, idx, results, log, trace>>

Next ==
    \/ SkipNaN
    \/ SkipNoData
    \/ SkipNoMeta
    \/ EvaluateFile
    \/ WriteResults

Spec == Init /\ [][Next]_vars

----------------------------------------------------------------------------
(* Claims about the feature encoder, checked under SpecEnc *)

\* the rows make_features encoded in the call that returned
EncodedRows == ShuffleTruncate(call.data, call.perm, call.sample)

EncReturned == pc = "returned" /\ call.fn = "make_features"

\* the number of feature positions the claims give a column
ClaimedWidth(cinfo) ==
    IF cinfo.name = "label" THEN 0
    ELSE IF cinfo.type \in {CONTINUOUS, ORDINAL} THEN 1
    ELSE IF cinfo.size <= 2 THEN 1
    ELSE cinfo.size

RECURSIVE ClaimedOffset(_, _)
ClaimedOffset(meta, j) ==
    IF j <= 1 THEN 0 ELSE ClaimedOffset(meta, j - 1) + ClaimedWidth(meta[j - 1])

\* C5: every continuous non-label column of every encoded row comes out as
\* log(max(v, 1e-2)) exactly when the column's min >= 0 and max >= 1000
\* (1000 included), and as (v - min) / (max - min) * 5 otherwise.
C5_ContinuousTransform ==
    (EncReturned /\ ret.status = "ok") =>
        \A i \in 1..Len(EncodedRows) : \A j \in 1..Len(call.meta) :
            LET cinfo == call.meta[j]
                v == EncodedRows[i][j]
                out == ret.features[i][ClaimedOffset(call.meta, j) + 1]
            IN
            (cinfo.name # "label" /\ cinfo.type = CONTINUOUS) =>
                IF cinfo.min >= 0 /\ cinfo.max >= 1000 * Hundredths
                THEN out = LogFloor(v)
                ELSE out = Rescale(v, cinfo.min, cinfo.max)

\* a column whose max is exactly 1000 was encoded by the log transform
C5_Witness ==
    /\ EncReturned /\ ret.status = "ok"
    /\ \E i \in 1..Len(EncodedRows) : \E j \in 1..Len(call.meta) :
        /\ call.meta[j].type = CONTINUOUS /\ call.meta[j].name # "label"
        /\ call.meta[j].min = 0 /\ call.meta[j].max = 1000 * Hundredths
        /\ EncodedRows[i][j] = Fin(0)
        /\ ret.features[i][ClaimedOffset(call.meta, j) + 1] = Feat("log", 1, 0)

\* C6: for a fixed schema every encoded row yields a feature vector of the
\* same length: label 0 positions, continuous or ordinal 1, categorical of
\* size <= 2 1, categorical of size k > 2 a block of k positions holding
\* exactly one 1 (at the index of the encoded value) and 0 elsewhere.
C6_FeatureWidth ==
    (EncReturned /\ ret.status = "ok") =>
        /\ Len(ret.features) = Len(EncodedRows)
        /\ Len(ret.labels) = Len(EncodedRows)
        /\ \A i \in 1..Len(EncodedRows) :
            /\ Len(ret.features[i]) = ClaimedOffset(call.meta, Len(call.meta) + 1)
            /\ \A j \in 1..Len(call.meta) :
                LET cinfo == call.meta[j]
                    off == ClaimedOffset(call.meta, j)
                    ones == {p \in 1..cinfo.size :
                                ret.features[i][off + p] = Feat("bit", 1, 0)}
                    zeros == {p \in 1..cinfo.size :
                                ret.features[i][off + p] = Feat("bit", 0, 0)}
                    code == EncodedRows[i][j].v \div Hundredths
                IN
                (cinfo.name # "label" /\ cinfo.type = CATEGORICAL /\ cinfo.size > 2) =>
                    /\ Cardinality(ones) = 1
                    /\ Cardinality(zeros) = cinfo.size - 1
                    /\ code \in 0..(cinfo.size - 1) => ones = {code + 1}

\* two rows of a schema with a categorical column of size > 2 were encoded,
\* with different values in that column
C6_Witness ==
    /\ EncReturned /\ ret.status = "ok"
    /\ Len(ret.features) = 2
    /\ \E j \in 1..Len(call.meta) :
        /\ call.meta[j].type = CATEGORICAL /\ call.meta[j].size > 2
        /\ call.meta[j].name # "label"
        /\ EncodedRows[1][j] = Fin(0) /\ EncodedRows[2][j] = Fin(250)

HasLabelColumn(meta) == \E j \in 1..Len(meta) : meta[j].name = "label"

\* C7 as stated: with a label_type other than 'int' and 'float' make_features
\* fails instead of returning, for any rows and any schema.
C7_Original ==
    (EncReturned /\ call.label_type \notin {"int", "float"}) => ret.status # "ok"

\* C7 as amended: with a label_type other than 'int' and 'float' make_features
\* fails whenever it encodes at least one row and the schema has a column named
\* 'label' (with the assertion error of line 130 when the label is the first
\* column); with no row or no label column the tag is never examined and no
\* assertion error is raised.
C7_UnknownLabelType ==
    (EncReturned /\ call.label_type \notin {"int", "float"}) =>
        IF Len(EncodedRows) >= 1 /\ HasLabelColumn(call.meta)
        THEN /\ ret.status # "ok"
             /\ call.meta[1].name = "label" => ret.status = "AssertionError"
        ELSE ret.status # "AssertionError"

\* an unknown tag met a label column in a non-empty row collection
C7_Witness ==
    /\ EncReturned /\ call.label_type = "str"
    /\ Len(EncodedRows) >= 1 /\ HasLabelColumn(call.meta)
    /\ ret.status = "AssertionError"

----------------------------------------------------------------------------
(* Claims about the utility evaluators, checked under SpecUtil *)

UtilReturned == pc = "returned" /\ call.fn = "evaluator"

SingleValued(y) == Cardinality({y[i] : i \in 1..Len(y)}) = 1

\* no model was fitted, and every model has a score record computed from a
\* prediction list that holds the constant once per test row
ConstantScored ==
    /\ trace = {}
    /\ ret.status = "ok"
    /\ Len(ret.performance) = Len(call.models)
    /\ \A m \in 1..Len(call.models) :
        /\ ret.performance[m].name = call.models[m]
        /\ \A s \in 1..Len(ret.performance[m].metrics) :
            LET pred == ret.performance[m].metrics[s].y_pred IN
            /\ Len(pred) = Len(call.x_test)
            /\ \A i \in 1..Len(pred) : pred[i] = call.y_train[1]

----------------------------------------------------------------------------
(* Claims about the dispatcher, checked under SpecDispatch *)

DispatchReturned == pc = "returned" /\ call.fn = "evalute_dataset"

\* the evaluation strategies the dispatcher invoked in the call
StrategyCalls == SelectSeq(ret.calls, LAMBDA c : c.fn # "make_features")

\* the labels the Utility Evaluator was given all have the type t
LabelsTyped(c, t) ==
    /\ \A i \in 1..Len(c.y_train) : c.y_train[i].t = t
    /\ \A i \in 1..Len(c.y_test) : c.y_test[i].t = t

\* C8: when the dispatcher routes a dataset to the Utility Evaluator, labels
\* are parsed as integers for the classification datasets and as floating
\* point for the regression dataset 'news', for the synthetic set and the
\* real test set alike.
C8_LabelTypeFollowsKind ==
    (DispatchReturned /\ call.dataset \in UtilityIds) =>
        /\ \A i \in 1..Len(ret.calls) :
            ret.calls[i].fn = "make_features" =>
                ret.calls[i].label_type =
                    IF call.dataset \in RegressionIds THEN "float" ELSE "int"
        /\ \A i \in 1..Len(StrategyCalls) :
            LabelsTyped(StrategyCalls[i],
                        IF call.dataset \in RegressionIds THEN "float" ELSE "int")

\* C9: for every id of the registry evalute_dataset invokes exactly one
\* strategy and returns its result, never None: the structural strategy for
\* 'asia', 'alarm', 'child', 'insurance', the Utility Evaluator with the
\* battery registered for the same id for the eight utility ids (get_models
\* never raises for them), and the mixture-model strategy with the id's
\* registered component count for the remaining ids.  (A call that raises
\* returns nothing at all; it has invoked at most that one strategy.)
C9_RegistryRouting ==
    (DispatchReturned /\ call.dataset \in DOMAIN DATASET_EVALUATOR_MAP) =>
        /\ Len(StrategyCalls) <= 1
        /\ ret.status \notin {"ValueError", "TypeError"}
        /\ ret.status = "ok" =>
            /\ Len(StrategyCalls) = 1
            /\ ret.result.kind = "performance"
            /\ Len(ret.result.performance) >= 1
        /\ \A i \in 1..Len(StrategyCalls) :
            LET c == StrategyCalls[i] IN
            IF call.dataset \in {"asia", "alarm", "child", "insurance"}
            THEN c.fn = "default_bayesian_likelihood"
            ELSE IF call.dataset \in {"mnist12", "mnist28", "covtype", "intrusion",
                                      "credit", "census", "adult", "news"}
            THEN /\ c.fn \in {"default_multi_classification",
                              "default_binary_classification", "news_regression"}
                 /\ c.models = DATASET_MODELS_MAP[call.dataset]
                 /\ ret.status = "ok" =>
                      /\ Len(ret.result.performance) = Len(c.models)
                      /\ \A m \in 1..Len(c.models) :
                            ret.result.performance[m].name = c.models[m]
            ELSE /\ c.fn = "default_gmm_likelihood"
                 /\ c.n = (CASE call.dataset = "grid" -> 30
                             [] call.dataset = "gridr" -> 30
                             [] call.dataset = "ring" -> 10)

\* 'ring' was routed to the mixture-model strategy with 10 components and the
\* call returned that strategy's record
C9_Witness ==
    /\ DispatchReturned /\ call.dataset = "ring"
    /\ ret.status = "ok" /\ ret.result.kind = "performance"
    /\ Len(StrategyCalls) = 1 /\ StrategyCalls[1].n = 10

----------------------------------------------------------------------------
(* Claims about the distance evaluator, checked under SpecDist *)

DistReturned == pc = "returned" /\ call.fn = "compute_distance"

\* C4: compute_distance evaluates at most sample_cap synthetic rows: for n
\* rows it takes the nearest-real-neighbour distance of min(n, sample_cap)
\* rows and returns their mean; in particular it completes without error
\* when n < sample_cap.
C4_AtMostSampleCap ==
    DistReturned =>
        /\ ret.status = "ok"
        /\ ret.evaluated = Min2(Len(call.syn), call.sample)
        /\ ret.distance =
             Mean([i \in 1..Min2(Len(call.syn), call.sample) |->
                     NearestDistance(call.trainset, call.syn[i], MaskD(call.meta))])

----------------------------------------------------------------------------
(* Claims about the batch run, checked under Spec *)

\* the array holds a NaN, a +infinity or a -infinity
HasNonFinite(syn) ==
    \E i \in 1..Len(syn) : \E j \in 1..Len(syn[i]) : ~IsFinite(syn[i][j])

\* the files of the folder whose dataset id has no row in the registry
UnknownFiles ==
    {i \in 1..Len(synthetic_files) :
        synthetic_files[i].dataset \notin DOMAIN DATASET_EVALUATOR_MAP}

\* the run ended on an exception raised while the file at position i was
\* evaluated
AbortedAt(i) == pc = "aborted" /\ idx = i

\* C1: a sample set that holds a NaN, a +infinity or a -infinity is skipped
\* as a whole: neither the dispatcher nor the distance evaluator is invoked
\* for it, no record is appended for it, and the run is not ended by it.
C1_NonFiniteSkipped ==
    \A i \in 1..Len(synthetic_files) :
        HasNonFinite(LoadSyn(synthetic_files[i])) =>
            /\ \A e \in trace : e.file # i
            /\ ~AbortedAt(i)

\* C2: for a dataset id that is not in the registry the dispatcher logs a
\* warning, returns None and raises nothing, and the batch run is not aborted:
\* it goes on to the remaining sample sets.
C2_UnknownIdContinues ==
    \A i \in UnknownFiles :
        /\ [file |-> i, fn |-> "evalute_dataset"] \in trace =>
             \E l \in 1..Len(log) :
                log[l] = Warning("evaluation not defined", synthetic_files[i].dataset)
        /\ \A r \in 1..Len(results) :
             results[r].dataset = synthetic_files[i].dataset =>
                results[r].performance.kind = "None"
        /\ ~AbortedAt(i)

\* C10: a missing dataset or metadata file, or a failure raised while one
\* sample set is evaluated, never prevents the others from being evaluated:
\* the run is never ended by an exception, and once the loop is over the
\* result collection is written with one record for every sample set whose
\* evaluation succeeded.
C10_FailuresIsolated ==
    /\ pc # "aborted"
    /\ pc = "done" =>
        /\ result_file.written
        /\ result_file.content = results
        /\ Len(results) =
             Cardinality({e \in trace : e.fn = "results.append"})

====
